---- MODULE Spec2Model ----
(***************************************************************************)
(* Quaternion<T: Float> of src/src/lib.rs.                                 *)
(*                                                                         *)
(* The scalar type T is modelled as the extended rationals: a scalar is a  *)
(* record [n, d] with d >= 0.  d > 0 is the finite value n/d in lowest     *)
(* terms, d = 0 with n = 1 or -1 is +infinity or -infinity, d = 0 with     *)
(* n = 0 is NaN.  Finite arithmetic is exact (no rounding, no overflow to  *)
(* infinity, no underflow); the operations on zero divisors, infinities    *)
(* and NaN follow IEEE 754.  The sign of zero is not modelled: the only    *)
(* divisor the library uses is square_length(), a sum of squares, whose    *)
(* zero is +0.                                                             *)
(***************************************************************************)
EXTENDS Integers, Sequences, FiniteSets, TLC

VARIABLES
  a,        \* left operand / receiver the harness starts from
  b,        \* right operand
  op,       \* the last operation applied
  out,      \* its result
  steps,    \* operations applied so far
  allUnit,  \* every factor so far had square_length 1
  m,        \* receiver of the in-place operations
  v,        \* value threaded through the value-returning operations
  c,        \* third operand of the equality checks
  eqs,      \* results of ==
  angles    \* arguments of from_euler_angles

vars == <<a, b, op, out, steps, allUnit, m, v, c, eqs, angles>>

----------------------------------------------------------------------------
(* Scalars: T: Float                                                       *)

Abs(i) == IF i < 0 THEN -i ELSE i

Sgn(i) == IF i < 0 THEN -1 ELSE IF i > 0 THEN 1 ELSE 0

RECURSIVE Gcd(_, _)
Gcd(p, q) == IF q = 0 THEN p ELSE Gcd(q, p % q)

\* n/d in lowest terms, d > 0
Ratio(n, d) ==
  LET g == Gcd(Abs(n), d) IN [n |-> n \div g, d |-> d \div g]

NaN == [n |-> 0, d |-> 0]

Inf(s) == [n |-> s, d |-> 0]

IsNaN(x) == x.d = 0 /\ x.n = 0

IsInf(x) == x.d = 0 /\ x.n # 0

IsFinite(x) == x.d > 0

\* T::from(i) of an i32 (and of the literal 1.)
FromInt(i) == [n |-> i, d |-> 1]

\* T::zero()
FZero == FromInt(0)

\* T::one()
FOne == FromInt(1)

\* unary minus of T
FNeg(x) == [n |-> -x.n, d |-> x.d]

\* x * y of T
FMul(x, y) ==
  IF IsNaN(x) \/ IsNaN(y) THEN NaN
  ELSE IF IsInf(x) \/ IsInf(y)
    THEN IF x.n = 0 \/ y.n = 0 THEN NaN ELSE Inf(Sgn(x.n) * Sgn(y.n))
  ELSE LET g1 == Gcd(Abs(x.n), y.d)
           g2 == Gcd(Abs(y.n), x.d)
       IN  Ratio((x.n \div g1) * (y.n \div g2), (x.d \div g2) * (y.d \div g1))

\* x + y of T
FAdd(x, y) ==
  IF IsNaN(x) \/ IsNaN(y) THEN NaN
  ELSE IF IsInf(x) THEN (IF IsInf(y) /\ y.n # x.n THEN NaN ELSE x)
  ELSE IF IsInf(y) THEN y
  ELSE LET g == Gcd(x.d, y.d)
       IN  Ratio(x.n * (y.d \div g) + y.n * (x.d \div g), (x.d \div g) * y.d)

\* x - y of T
FSub(x, y) == FAdd(x, FNeg(y))

\* x / y of T
FDiv(x, y) ==
  IF IsNaN(x) \/ IsNaN(y) THEN NaN
  ELSE IF IsInf(x) THEN (IF IsInf(y) THEN NaN
                         ELSE Inf(x.n * (IF y.n < 0 THEN -1 ELSE 1)))
  ELSE IF IsInf(y) THEN FZero
  ELSE IF y.n = 0 THEN (IF x.n = 0 THEN NaN ELSE Inf(Sgn(x.n)))
  ELSE FMul(x, [n |-> Sgn(y.n) * y.d, d |-> Abs(y.n)])

\* n1/d1 < n2/d2 for d1, d2 > 0, by integer parts and then the remainders
\* inverted, so that no product is formed
RECURSIVE RatioLess(_, _, _, _)
RatioLess(n1, d1, n2, d2) ==
  IF n1 \div d1 # n2 \div d2 THEN n1 \div d1 < n2 \div d2
  ELSE IF n2 % d2 = 0 THEN FALSE
  ELSE IF n1 % d1 = 0 THEN TRUE
  ELSE RatioLess(d2, n2 % d2, d1, n1 % d1)

\* x < y of T
FLt(x, y) ==
  IF IsNaN(x) \/ IsNaN(y) THEN FALSE
  ELSE IF IsInf(x) THEN x.n < 0 /\ ~(IsInf(y) /\ y.n < 0)
  ELSE IF IsInf(y) THEN y.n > 0
  ELSE RatioLess(x.n, x.d, y.n, y.d)

\* T::epsilon() of f32, 2^-23
Epsilon == [n |-> 1, d |-> 2^23]

----------------------------------------------------------------------------
(* Quaternion {w, x, y, z}                                                 *)

\* q(w, x, y, z) / Quaternion::new
Q(w, x, y, z) == [w |-> w, x |-> x, y |-> y, z |-> z]

\* qi(w, x, y, z): from integers
Qi(w, x, y, z) == Q(FromInt(w), FromInt(x), FromInt(y), FromInt(z))

\* faulty variant: id() confused with an all-ones value
IdAllOnes == Q(FOne, FOne, FOne, FOne)

\* Quaternion::id()
Id == Q(FOne, FZero, FZero, FZero)

\* Default::default()
Default == Q(FZero, FZero, FZero, FZero)

\* scale(&self, t)
Scale(self, t) ==
  [w |-> FMul(self.w, t), x |-> FMul(self.x, t),
   y |-> FMul(self.y, t), z |-> FMul(self.z, t)]

\* scale_mut(&mut self, t): four assignments in order
ScaleMut(self, t) ==
  LET s1 == [self EXCEPT !.w = FMul(self.w, t)]
      s2 == [s1 EXCEPT !.x = FMul(s1.x, t)]
      s3 == [s2 EXCEPT !.y = FMul(s2.y, t)]
  IN  [s3 EXCEPT !.z = FMul(s3.z, t)]

\* conjugate(&self)
Conjugate(self) ==
  [w |-> self.w, x |-> FNeg(self.x), y |-> FNeg(self.y), z |-> FNeg(self.z)]

\* conjugate_mut(&mut self)
ConjugateMut(self) ==
  LET s1 == [self EXCEPT !.x = FNeg(self.x)]
      s2 == [s1 EXCEPT !.y = FNeg(s1.y)]
  IN  [s2 EXCEPT !.z = FNeg(s2.z)]

\* square_length(&self)
SquareLength(self) ==
  FAdd(FAdd(FAdd(FMul(self.w, self.w), FMul(self.x, self.x)),
            FMul(self.y, self.y)), FMul(self.z, self.z))

\* dot(&self, other)
Dot(self, other) ==
  FAdd(FAdd(FAdd(FMul(self.w, other.w), FMul(self.x, other.x)),
            FMul(self.y, other.y)), FMul(self.z, other.z))

\* faulty variant: the conjugation is forgotten
InverseNoConjugate(self) == Scale(self, FDiv(FromInt(1), SquareLength(self)))

\* faulty variant: a zero-length receiver is special-cased
InverseGuarded(self) ==
  IF SquareLength(self) = FZero THEN Default
  ELSE Conjugate(Scale(self, FDiv(FromInt(1), SquareLength(self))))

\* inverse(&self)
Inverse(self) == Conjugate(Scale(self, FDiv(FromInt(1), SquareLength(self))))

\* inverse_mut(&mut self)
InverseMut(self) ==
  ConjugateMut(ScaleMut(self, FDiv(FromInt(1), SquareLength(self))))

\* Add::add
Add(self, other) ==
  [w |-> FAdd(self.w, other.w), x |-> FAdd(self.x, other.x),
   y |-> FAdd(self.y, other.y), z |-> FAdd(self.z, other.z)]

\* AddAssign::add_assign
AddAssign(self, other) ==
  LET s1 == [self EXCEPT !.w = FAdd(self.w, other.w)]
      s2 == [s1 EXCEPT !.x = FAdd(s1.x, other.x)]
      s3 == [s2 EXCEPT !.y = FAdd(s2.y, other.y)]
  IN  [s3 EXCEPT !.z = FAdd(s3.z, other.z)]

\* Sub::sub
Sub(self, other) ==
  [w |-> FSub(self.w, other.w), x |-> FSub(self.x, other.x),
   y |-> FSub(self.y, other.y), z |-> FSub(self.z, other.z)]

\* SubAssign::sub_assign
SubAssign(self, other) ==
  LET s1 == [self EXCEPT !.w = FSub(self.w, other.w)]
      s2 == [s1 EXCEPT !.x = FSub(s1.x, other.x)]
      s3 == [s2 EXCEPT !.y = FSub(s2.y, other.y)]
  IN  [s3 EXCEPT !.z = FSub(s3.z, other.z)]

\* Neg::neg
Neg(self) ==
  [w |-> FNeg(self.w), x |-> FNeg(self.x), y |-> FNeg(self.y), z |-> FNeg(self.z)]

\* faulty variant: the operands are taken in the other order
MulSwapped(self, other) ==
  [w |-> FSub(FSub(FSub(FMul(other.w, self.w), FMul(other.x, self.x)),
                   FMul(other.y, self.y)), FMul(other.z, self.z)),
   x |-> FSub(FAdd(FAdd(FMul(other.w, self.x), FMul(other.x, self.w)),
                   FMul(other.y, self.z)), FMul(other.z, self.y)),
   y |-> FAdd(FAdd(FSub(FMul(other.w, self.y), FMul(other.x, self.z)),
                   FMul(other.y, self.w)), FMul(other.z, self.x)),
   z |-> FAdd(FSub(FAdd(FMul(other.w, self.z), FMul(other.x, self.y)),
                   FMul(other.y, self.x)), FMul(other.z, self.w))]

\* faulty variant: the z component drops its last term
MulShortZ(self, other) ==
  [w |-> FSub(FSub(FSub(FMul(self.w, other.w), FMul(self.x, other.x)),
                   FMul(self.y, other.y)), FMul(self.z, other.z)),
   x |-> FSub(FAdd(FAdd(FMul(self.w, other.x), FMul(self.x, other.w)),
                   FMul(self.y, other.z)), FMul(self.z, other.y)),
   y |-> FAdd(FAdd(FSub(FMul(self.w, other.y), FMul(self.x, other.z)),
                   FMul(self.y, other.w)), FMul(self.z, other.x)),
   z |-> FSub(FAdd(FMul(self.w, other.z), FMul(self.x, other.y)),
              FMul(self.y, other.x))]

\* Mul::mul
Mul(self, other) ==
  [w |-> FSub(FSub(FSub(FMul(self.w, other.w), FMul(self.x, other.x)),
                   FMul(self.y, other.y)), FMul(self.z, other.z)),
   x |-> FSub(FAdd(FAdd(FMul(self.w, other.x), FMul(self.x, other.w)),
                   FMul(self.y, other.z)), FMul(self.z, other.y)),
   y |-> FAdd(FAdd(FSub(FMul(self.w, other.y), FMul(self.x, other.z)),
                   FMul(self.y, other.w)), FMul(self.z, other.x)),
   z |-> FAdd(FSub(FAdd(FMul(self.w, other.z), FMul(self.x, other.y)),
                   FMul(self.y, other.x)), FMul(self.z, other.w))]

\* faulty variant: each field is written as soon as it is computed, so x, y and z
\* read fields that are already overwritten
MulAssignInPlace(self, other) ==
  LET s1 == [self EXCEPT !.w =
               FSub(FSub(FSub(FMul(self.w, other.w), FMul(self.x, other.x)),
                         FMul(self.y, other.y)), FMul(self.z, other.z))]
      s2 == [s1 EXCEPT !.x =
               FSub(FAdd(FAdd(FMul(s1.w, other.x), FMul(s1.x, other.w)),
                         FMul(s1.y, other.z)), FMul(s1.z, other.y))]
      s3 == [s2 EXCEPT !.y =
               FAdd(FAdd(FSub(FMul(s2.w, other.y), FMul(s2.x, other.z)),
                         FMul(s2.y, other.w)), FMul(s2.z, other.x))]
  IN  [s3 EXCEPT !.z =
               FAdd(FSub(FAdd(FMul(s3.w, other.z), FMul(s3.x, other.y)),
                         FMul(s3.y, other.x)), FMul(s3.z, other.w))]

\* MulAssign::mul_assign: four lets from the old fields, then four writes
MulAssign(self, other) ==
  LET w == FSub(FSub(FSub(FMul(self.w, other.w), FMul(self.x, other.x)),
                     FMul(self.y, other.y)), FMul(self.z, other.z))
      x == FSub(FAdd(FAdd(FMul(self.w, other.x), FMul(self.x, other.w)),
                     FMul(self.y, other.z)), FMul(self.z, other.y))
      y == FAdd(FAdd(FSub(FMul(self.w, other.y), FMul(self.x, other.z)),
                     FMul(self.y, other.w)), FMul(self.z, other.x))
      z == FAdd(FSub(FAdd(FMul(self.w, other.z), FMul(self.x, other.y)),
                     FMul(self.y, other.x)), FMul(self.z, other.w))
      s1 == [self EXCEPT !.w = w]
      s2 == [s1 EXCEPT !.x = x]
      s3 == [s2 EXCEPT !.y = y]
  IN  [s3 EXCEPT !.z = z]

\* faulty variant: left-multiplication by the divisor's inverse
DivLeft(self, other) == Mul(Inverse(other), self)

\* Div::div
Div(self, other) == Mul(self, Inverse(other))

\* faulty variant: the bound is not strict
EqNotStrict(self, other) ==
  LET s == SquareLength(Sub(self, other))
  IN  FLt(s, Epsilon) \/ s = Epsilon

\* faulty variant: w is compared against the other operand's x
EqFieldMix(self, other) ==
  LET d == [Sub(self, other) EXCEPT !.w = FSub(self.w, other.x)]
  IN  FLt(SquareLength(d), Epsilon)

\* PartialEq::eq
Eq(self, other) == FLt(SquareLength(Sub(self, other)), Epsilon)

----------------------------------------------------------------------------
(* Operands                                                                *)

\* largest absolute value of a coordinate of the grid of left operands
MaxCoord == 1

Grid ==
  {Qi(w, x, y, z) : w \in -MaxCoord..MaxCoord, x \in -MaxCoord..MaxCoord,
                    y \in -MaxCoord..MaxCoord, z \in -MaxCoord..MaxCoord}

\* the operands of tests/arithmetic_test.rs
TestOperands ==
  {Qi(1, 2, 3, 4), Qi(5, 6, 7, 8), Qi(-60, 12, 30, 24), Qi(-60, 20, 14, 32)}

Lhs == Grid \cup TestOperands

Rhs ==
  {Qi(1, 2, 3, 4), Qi(5, 6, 7, 8), Id, Default,
   Qi(0, 1, 0, 0), Qi(0, 0, 1, 0), Qi(0, 0, 0, 1),
   Qi(1, 1, 0, 0), Qi(0, 1, -1, 0), Qi(1, -1, 1, -1), Qi(2, 0, -1, 3),
   Scale(Qi(1, 2, 3, 4), [n |-> 3, d |-> 2]),
   Q([n |-> 1, d |-> 2], [n |-> -1, d |-> 2], [n |-> 1, d |-> 2], [n |-> 1, d |-> 2])}

----------------------------------------------------------------------------
(* Spec: one expression of the value-returning API is evaluated on a pair  *)
(* of operands, as the assertions of tests/arithmetic_test.rs do.          *)

Init ==
  /\ a \in Lhs
  /\ b \in Rhs
  /\ op = "init"
  /\ out = a
  /\ steps = 0
  /\ allUnit = FALSE
  /\ m = Default
  /\ v = Default
  /\ c = Default
  /\ eqs = <<>>
  /\ angles = <<>>

\* a * b
DoMul ==
  /\ op = "init"
  /\ out' = Mul(a, b)
  /\ op' = "mul"
  /\ UNCHANGED <<a, b, steps, allUnit, m, v, c, eqs, angles>>

\* a / b
DoDiv ==
  /\ op = "init"
  /\ out' = Div(a, b)
  /\ op' = "div"
  /\ UNCHANGED <<a, b, steps, allUnit, m, v, c, eqs, angles>>

\* (a * b) / b
DoDivBack ==
  /\ op = "mul"
  /\ out' = Div(out, b)
  /\ op' = "mul_div"
  /\ UNCHANGED <<a, b, steps, allUnit, m, v, c, eqs, angles>>

\* a.inverse()
DoInverse ==
  /\ op = "init"
  /\ out' = Inverse(a)
  /\ op' = "inverse"
  /\ UNCHANGED <<a, b, steps, allUnit, m, v, c, eqs, angles>>

\* let mut c = a; c.inverse_mut()
DoInverseMut ==
  /\ op = "init"
  /\ out' = InverseMut(a)
  /\ op' = "inverse_mut"
  /\ UNCHANGED <<a, b, steps, allUnit, m, v, c, eqs, angles>>

\* a.inverse() * a, and c * a after c.inverse_mut()
DoMulBack ==
  /\ op \in {"inverse", "inverse_mut"}
  /\ out' = Mul(out, a)
  /\ op' = IF op = "inverse" THEN "inverse_mul" ELSE "inverse_mut_mul"
  /\ UNCHANGED <<a, b, steps, allUnit, m, v, c, eqs, angles>>

\* Quaternion::id() * a
DoIdMul ==
  /\ op = "init"
  /\ out' = Mul(Id, a)
  /\ op' = "id_mul"
  /\ UNCHANGED <<a, b, steps, allUnit, m, v, c, eqs, angles>>

\* a * Quaternion::id()
DoMulId ==
  /\ op = "init"
  /\ out' = Mul(a, Id)
  /\ op' = "mul_id"
  /\ UNCHANGED <<a, b, steps, allUnit, m, v, c, eqs, angles>>

Next ==
  \/ DoMul
  \/ DoDiv
  \/ DoDivBack
  \/ DoInverse
  \/ DoInverseMut
  \/ DoMulBack
  \/ DoIdMul
  \/ DoMulId

Spec == Init /\ [][Next]_vars

----------------------------------------------------------------------------
(* Claims checked under Spec                                               *)

IsIntQ(p) == p.w.d = 1 /\ p.x.d = 1 /\ p.y.d = 1 /\ p.z.d = 1

NonFiniteQ(p) ==
  ~IsFinite(p.w) /\ ~IsFinite(p.x) /\ ~IsFinite(p.y) /\ ~IsFinite(p.z)

IsQuaternion(p) ==
  /\ DOMAIN p = {"w", "x", "y", "z"}
  /\ \A f \in DOMAIN p : DOMAIN p[f] = {"n", "d"} /\ p[f].d >= 0

\* C1: a * b is the Hamilton product, component by component, with the
\* operands in the order written: (1,2,3,4) * (5,6,7,8) = (-60,12,30,24)
\* and (5,6,7,8) * (1,2,3,4) = (-60,20,14,32).
C1_HamiltonProduct ==
  op = "mul" =>
    /\ out.w = FSub(FSub(FSub(FMul(a.w, b.w), FMul(a.x, b.x)), FMul(a.y, b.y)),
                    FMul(a.z, b.z))
    /\ out.x = FSub(FAdd(FAdd(FMul(a.w, b.x), FMul(a.x, b.w)), FMul(a.y, b.z)),
                    FMul(a.z, b.y))
    /\ out.y = FAdd(FAdd(FSub(FMul(a.w, b.y), FMul(a.x, b.z)), FMul(a.y, b.w)),
                    FMul(a.z, b.x))
    /\ out.z = FAdd(FSub(FAdd(FMul(a.w, b.z), FMul(a.x, b.y)), FMul(a.y, b.x)),
                    FMul(a.z, b.w))
    /\ (IsIntQ(a) /\ IsIntQ(b) =>
          out = Qi(a.w.n * b.w.n - a.x.n * b.x.n - a.y.n * b.y.n - a.z.n * b.z.n,
                   a.w.n * b.x.n + a.x.n * b.w.n + a.y.n * b.z.n - a.z.n * b.y.n,
                   a.w.n * b.y.n - a.x.n * b.z.n + a.y.n * b.w.n + a.z.n * b.x.n,
                   a.w.n * b.z.n + a.x.n * b.y.n - a.y.n * b.x.n + a.z.n * b.w.n))
    /\ (a = Qi(1, 2, 3, 4) /\ b = Qi(5, 6, 7, 8) => out = Qi(-60, 12, 30, 24))
    /\ (a = Qi(5, 6, 7, 8) /\ b = Qi(1, 2, 3, 4) => out = Qi(-60, 20, 14, 32))

C1_Witness ==
  op = "mul" /\ a = Qi(5, 6, 7, 8) /\ b = Qi(1, 2, 3, 4) /\ out = Qi(-60, 20, 14, 32)

\* C3: for a of non-zero square_length, a.inverse() * a is the identity,
\* under == and exactly; inverse() is the conjugate scaled by
\* 1/square_length; inverse_mut() gives the same.
C3_InverseTimesSelf ==
  SquareLength(a) # FZero =>
    /\ (op \in {"inverse_mul", "inverse_mut_mul"} => Eq(out, Id) /\ out = Id)
    /\ (op \in {"inverse", "inverse_mut"} =>
          out = Scale(Conjugate(a), FDiv(FOne, SquareLength(a))))

C3_Witness ==
  op = "inverse_mul" /\ a = Qi(1, 2, 3, 4) /\ Eq(out, Qi(1, 0, 0, 0))

\* C4: for b of non-zero square_length, (a * b) / b is a again; a / b is
\* a * inverse(b); (-60,12,30,24) / (5,6,7,8) = (1,2,3,4) and
\* (-60,20,14,32) / (1,2,3,4) = (5,6,7,8).
C4_RightDivisionRoundTrip ==
  SquareLength(b) # FZero =>
    /\ (op = "mul_div" => Eq(out, a) /\ out = a)
    /\ (op = "div" /\ a = Qi(-60, 12, 30, 24) /\ b = Qi(5, 6, 7, 8)
          => out = Qi(1, 2, 3, 4))
    /\ (op = "div" /\ a = Qi(-60, 20, 14, 32) /\ b = Qi(1, 2, 3, 4)
          => out = Qi(5, 6, 7, 8))

C4_Witness ==
  op = "mul_div" /\ a = Qi(1, 2, 3, 4) /\ b = Qi(5, 6, 7, 8) /\ Eq(out, a)

\* C6: id() is (1,0,0,0) and a two-sided identity of the product:
\* id() * a == a and a * id() == a.
C6_TwoSidedIdentity ==
  /\ Id = Qi(1, 0, 0, 0)
  /\ (op = "id_mul" => Eq(out, a) /\ out = a)
  /\ (op = "mul_id" => Eq(out, a) /\ out = a)

C6_Witness ==
  op = "mul_id" /\ a = Qi(-60, 12, 30, 24) /\ Eq(out, a)

\* C8: inverse of, and division by, a quaternion of zero square_length
\* returns a quaternion (no failure value) computed by the usual formula,
\* whose components are all non-finite; they stay non-finite through a
\* later product.
C8_ZeroLengthInverse ==
  /\ IsQuaternion(out)
  /\ (SquareLength(a) = FZero =>
        /\ (op \in {"inverse", "inverse_mut"} =>
              /\ NonFiniteQ(out)
              /\ out = Conjugate(Scale(a, FDiv(FOne, FZero))))
        /\ (op \in {"inverse_mul", "inverse_mut_mul"} => NonFiniteQ(out)))
  /\ (SquareLength(b) = FZero /\ op = "div" => NonFiniteQ(out))

C8_Witness ==
  op = "div" /\ a = Qi(1, 2, 3, 4) /\ SquareLength(b) = FZero /\ IsNaN(out.w)

----------------------------------------------------------------------------
(* SpecChain: a running product.  Each round multiplies the accumulated    *)
(* value a by a factor b; the product becomes the next round's a.          *)

\* rounds after the first
MaxChain == 2

Fifths(w, x, y, z) ==
  Q([n |-> w, d |-> 5], [n |-> x, d |-> 5], [n |-> y, d |-> 5], [n |-> z, d |-> 5])

Halves(w, x, y, z) ==
  Q([n |-> w, d |-> 2], [n |-> x, d |-> 2], [n |-> y, d |-> 2], [n |-> z, d |-> 2])

UnitFactors ==
  {Qi(0, 1, 0, 0), Qi(0, 0, -1, 0), Fifths(3, 4, 0, 0), Fifths(0, -3, 0, 4),
   Halves(1, 1, -1, 1)}

OtherFactors == {Qi(1, 2, 3, 4), Qi(1, -1, 0, 0), Default}

ChainFactors == UnitFactors \cup OtherFactors

ChainStart ==
  ChainFactors \cup {Id, Qi(0, 0, 0, 1), Fifths(4, 0, 3, 0), Halves(1, -1, -1, -1),
                     Qi(5, 6, 7, 8), Qi(0, 2, -1, 0)}

IsUnit(p) == SquareLength(p) = FOne

InitChain ==
  /\ a \in ChainStart
  /\ b \in ChainFactors
  /\ op = "init"
  /\ out = a
  /\ steps = 0
  /\ allUnit = (IsUnit(a) /\ IsUnit(b))
  /\ m = Default
  /\ v = Default
  /\ c = Default
  /\ eqs = <<>>
  /\ angles = <<>>

\* a * b
ChainMul ==
  /\ op = "init"
  /\ out' = Mul(a, b)
  /\ op' = "mul"
  /\ UNCHANGED <<a, b, steps, allUnit, m, v, c, eqs, angles>>

\* a * a.conjugate()
ChainMulConjugate ==
  /\ op = "init"
  /\ out' = Mul(a, Conjugate(a))
  /\ op' = "mul_conjugate"
  /\ UNCHANGED <<a, b, steps, allUnit, m, v, c, eqs, angles>>

\* the product is carried into the next round, with a new factor
ChainNext(f) ==
  /\ op = "mul"
  /\ steps < MaxChain
  /\ a' = out
  /\ b' = f
  /\ op' = "init"
  /\ steps' = steps + 1
  /\ allUnit' = (allUnit /\ IsUnit(f))
  /\ UNCHANGED <<out, m, v, c, eqs, angles>>

NextChain ==
  \/ ChainMul
  \/ ChainMulConjugate
  \/ \E f \in ChainFactors : ChainNext(f)

SpecChain == InitChain /\ [][NextChain]_vars

\* C10: square_length is multiplicative under the product, so a product of
\* unit quaternions is unit after any number of multiplications, and
\* a * a.conjugate() = (a.square_length(), 0, 0, 0).
C10_NormMultiplicative ==
  /\ (op = "mul" => SquareLength(out) = FMul(SquareLength(a), SquareLength(b)))
  /\ (allUnit => IsUnit(a) /\ (op = "mul" => IsUnit(out)))
  /\ (op = "mul_conjugate" => out = Q(SquareLength(a), FZero, FZero, FZero))

C10_Witness ==
  /\ op = "mul" /\ steps = MaxChain /\ allUnit
  /\ a.w.d > 5 /\ b = Halves(1, 1, -1, 1)
  /\ IsUnit(out)

----------------------------------------------------------------------------
(* SpecMut: the same sequence of operations is applied in place to the     *)
(* receiver m and, through the value-returning forms, to the value v.      *)

\* operations in a sequence
MaxSteps == 3

\* a further operation is applied only while every numerator and denominator
\* of the receiver is at most this large
MaxAbs == 64

MutStart == {Qi(1, 2, 3, 4), Id, Default, Qi(2, -1, 0, 1)}

MutOperands == {Qi(5, 6, 7, 8), Qi(0, 1, -1, 0), Halves(1, -3, 2, 0)}

MutScalars == {[n |-> 3, d |-> 2], [n |-> -2, d |-> 1]}

SmallT(x) == Abs(x.n) <= MaxAbs /\ x.d <= MaxAbs

Small(p) == SmallT(p.w) /\ SmallT(p.x) /\ SmallT(p.y) /\ SmallT(p.z)

InitMut ==
  /\ m \in MutStart
  /\ v = m
  /\ steps = 0
  /\ op = "init"
  /\ a = Default
  /\ b = Default
  /\ out = Default
  /\ allUnit = FALSE
  /\ c = Default
  /\ eqs = <<>>
  /\ angles = <<>>

MayStep == steps < MaxSteps /\ Small(m) /\ Small(v)

\* m += o;  v = v + o
StepAdd(o) ==
  /\ MayStep
  /\ m' = AddAssign(m, o)
  /\ v' = Add(v, o)
  /\ op' = "add_assign"
  /\ steps' = steps + 1
  /\ UNCHANGED <<a, b, out, allUnit, c, eqs, angles>>

\* m -= o;  v = v - o
StepSub(o) ==
  /\ MayStep
  /\ m' = SubAssign(m, o)
  /\ v' = Sub(v, o)
  /\ op' = "sub_assign"
  /\ steps' = steps + 1
  /\ UNCHANGED <<a, b, out, allUnit, c, eqs, angles>>

\* m *= o;  v = v * o
StepMul(o) ==
  /\ MayStep
  /\ m' = MulAssign(m, o)
  /\ v' = Mul(v, o)
  /\ op' = "mul_assign"
  /\ steps' = steps + 1
  /\ UNCHANGED <<a, b, out, allUnit, c, eqs, angles>>

\* m.scale_mut(t);  v = v.scale(t)
StepScale(t) ==
  /\ MayStep
  /\ m' = ScaleMut(m, t)
  /\ v' = Scale(v, t)
  /\ op' = "scale_mut"
  /\ steps' = steps + 1
  /\ UNCHANGED <<a, b, out, allUnit, c, eqs, angles>>

\* m.conjugate_mut();  v = v.conjugate()
StepConjugate ==
  /\ MayStep
  /\ m' = ConjugateMut(m)
  /\ v' = Conjugate(v)
  /\ op' = "conjugate_mut"
  /\ steps' = steps + 1
  /\ UNCHANGED <<a, b, out, allUnit, c, eqs, angles>>

\* m.inverse_mut();  v = v.inverse()
StepInverse ==
  /\ MayStep
  /\ m' = InverseMut(m)
  /\ v' = Inverse(v)
  /\ op' = "inverse_mut"
  /\ steps' = steps + 1
  /\ UNCHANGED <<a, b, out, allUnit, c, eqs, angles>>

NextMut ==
  \/ \E o \in MutOperands : StepAdd(o)
  \/ \E o \in MutOperands : StepSub(o)
  \/ \E o \in MutOperands : StepMul(o)
  \/ \E t \in MutScalars : StepScale(t)
  \/ StepConjugate
  \/ StepInverse

SpecMut == InitMut /\ [][NextMut]_vars

\* C5: after every step of a sequence of in-place operations the receiver's
\* four fields equal the fields of the value obtained by the corresponding
\* value-returning operations.
C5_InPlaceAgrees ==
  /\ m.w = v.w
  /\ m.x = v.x
  /\ m.y = v.y
  /\ m.z = v.z

C5_Witness ==
  /\ steps = MaxSteps /\ op = "mul_assign"
  /\ IsFinite(m.w) /\ m.w.d > 2 /\ m.x # m.y
  /\ m = v

----------------------------------------------------------------------------
(* SpecEq: == is evaluated on three operands that lie close together.      *)
(* The operands are (1,2,3,4) displaced by multiples of 2^-12, so that     *)
(* squared distances are multiples of 2^-24 = epsilon/2; all of these are  *)
(* exact in f32 as well.                                                   *)

\* largest displacement of a coordinate, in units of 2^-12
MaxOff == 2

EqScale == 2^12

Displaced(w, x, y, z) ==
  Add(Qi(1, 2, 3, 4),
      Q(Ratio(w, EqScale), Ratio(x, EqScale), Ratio(y, EqScale), Ratio(z, EqScale)))

EqOperands ==
  {Displaced(i, j, 0, 0) : i \in 0..MaxOff, j \in 0..MaxOff}
    \cup {Displaced(0, 0, 1, 0), Displaced(0, 0, 0, -1), Qi(2, 1, 3, 4)}

InitEq ==
  /\ a \in EqOperands
  /\ b \in EqOperands
  /\ c \in EqOperands
  /\ op = "init"
  /\ eqs = <<>>
  /\ out = Default
  /\ steps = 0
  /\ allUnit = FALSE
  /\ m = Default
  /\ v = Default
  /\ angles = <<>>

\* a == a, a == b, b == a, b == c, a == c
EvalEq ==
  /\ op = "init"
  /\ eqs' = [aa |-> Eq(a, a), ab |-> Eq(a, b), ba |-> Eq(b, a),
             bc |-> Eq(b, c), ac |-> Eq(a, c)]
  /\ op' = "eq"
  /\ UNCHANGED <<a, b, c, out, steps, allUnit, m, v, angles>>

NextEq == EvalEq

SpecEq == InitEq /\ [][NextEq]_vars

\* (p.w-q.w)^2 + (p.x-q.x)^2 + (p.y-q.y)^2 + (p.z-q.z)^2
SquareDistance(p, q) ==
  FAdd(FAdd(FAdd(FMul(FSub(p.w, q.w), FSub(p.w, q.w)),
                 FMul(FSub(p.x, q.x), FSub(p.x, q.x))),
            FMul(FSub(p.y, q.y), FSub(p.y, q.y))),
       FMul(FSub(p.z, q.z), FSub(p.z, q.z)))

\* a finite scalar whose denominator divides 2^12, in units of 2^-12
Units(x) == x.n * (EqScale \div x.d)

\* the squared distance in units of 2^-24, in integer arithmetic
UnitsSquareDistance(p, q) ==
  (Units(p.w) - Units(q.w)) * (Units(p.w) - Units(q.w))
    + (Units(p.x) - Units(q.x)) * (Units(p.x) - Units(q.x))
    + (Units(p.y) - Units(q.y)) * (Units(p.y) - Units(q.y))
    + (Units(p.z) - Units(q.z)) * (Units(p.z) - Units(q.z))

\* C7: a == b exactly when the squared length of the whole difference,
\* field against the same field, is strictly below epsilon; a squared
\* length of exactly epsilon (2 units of 2^-24) compares unequal.
C7_EqStrictWholeDifference ==
  op = "eq" =>
    /\ eqs.ab = FLt(SquareDistance(a, b), Epsilon)
    /\ eqs.ab = (UnitsSquareDistance(a, b) < 2)
    /\ (SquareDistance(a, b) = Epsilon => ~eqs.ab)

C7_Witness ==
  op = "eq" /\ SquareLength(Sub(a, b)) = Epsilon /\ ~eqs.ab

\* C9: == is reflexive and symmetric on finite values but not transitive:
\* (1,2,3,4), (1+2^-12,2,3,4), (1+2^-11,2,3,4) are equal pair by adjacent
\* pair and unequal end to end; whenever a == b and b == c but not a == c,
\* the adjacent squared distances are below epsilon and the end one is not.
C9_EqNotTransitive ==
  /\ Eq(Displaced(0, 0, 0, 0), Displaced(1, 0, 0, 0))
  /\ Eq(Displaced(1, 0, 0, 0), Displaced(2, 0, 0, 0))
  /\ ~Eq(Displaced(0, 0, 0, 0), Displaced(2, 0, 0, 0))
  /\ (op = "eq" =>
        /\ eqs.aa
        /\ eqs.ab = eqs.ba
        /\ (eqs.ab /\ eqs.bc /\ ~eqs.ac =>
              /\ UnitsSquareDistance(a, b) < 2
              /\ UnitsSquareDistance(b, c) < 2
              /\ UnitsSquareDistance(a, c) >= 2))

C9_Witness ==
  op = "eq" /\ eqs.ab /\ eqs.bc /\ ~eqs.ac /\ eqs.aa /\ a.x # c.x

----------------------------------------------------------------------------
(* SpecEuler: from_euler_angles.  An argument x is named by the rational   *)
(* u = tan(x/4): then cos(x/2) = (1-u^2)/(1+u^2) and sin(x/2) =            *)
(* 2u/(1+u^2) are rational, and exact.  u = 1 is x = pi, u = 0 is x = 0.   *)

\* largest numerator and denominator of u
MaxTan == 2

Angle(u) == [quarterTan |-> u]

EulerAngles == {Angle(Ratio(p, q)) : p \in -MaxTan..MaxTan, q \in 1..MaxTan}

\* PI of tests/arithmetic_test.rs
Pi == Angle(FOne)

\* x / two
Half(x) == [halfTan |-> x.quarterTan]

\* half.cos()
Cos(h) ==
  FDiv(FSub(FOne, FMul(h.halfTan, h.halfTan)), FAdd(FOne, FMul(h.halfTan, h.halfTan)))

\* half.sin()
Sin(h) ==
  FDiv(FAdd(h.halfTan, h.halfTan), FAdd(FOne, FMul(h.halfTan, h.halfTan)))

\* Quaternion::from_euler_angles(x, y, z)
FromEulerAngles(x, y, z) ==
  LET half_x == Half(x)
      half_y == Half(y)
      half_z == Half(z)
      cos_x_2 == Cos(half_x)
      cos_y_2 == Cos(half_y)
      cos_z_2 == Cos(half_z)
      sin_x_2 == Sin(half_x)
      sin_y_2 == Sin(half_y)
      sin_z_2 == Sin(half_z)
  IN  [w |-> FAdd(FMul(FMul(cos_x_2, cos_y_2), cos_z_2),
                  FMul(FMul(sin_x_2, sin_y_2), sin_z_2)),
       x |-> FAdd(FMul(FMul(sin_x_2, cos_y_2), cos_z_2),
                  FMul(FMul(cos_x_2, sin_y_2), sin_z_2)),
       y |-> FAdd(FMul(FMul(cos_x_2, sin_y_2), cos_z_2),
                  FMul(FMul(sin_x_2, cos_y_2), sin_z_2)),
       z |-> FAdd(FMul(FMul(cos_x_2, cos_y_2), sin_z_2),
                  FMul(FMul(sin_x_2, sin_y_2), cos_z_2))]

InitEuler ==
  /\ angles \in EulerAngles \X EulerAngles \X EulerAngles
  /\ op = "init"
  /\ out = Default
  /\ a = Default
  /\ b = Default
  /\ c = Default
  /\ eqs = <<>>
  /\ steps = 0
  /\ allUnit = FALSE
  /\ m = Default
  /\ v = Default

\* let q = Quaternion::from_euler_angles(x, y, z)
DoFromEuler ==
  /\ op = "init"
  /\ out' = FromEulerAngles(angles[1], angles[2], angles[3])
  /\ op' = "from_euler_angles"
  /\ UNCHANGED <<a, b, c, eqs, steps, allUnit, m, v, angles>>

NextEuler == DoFromEuler

SpecEuler == InitEuler /\ [][NextEuler]_vars

FAbs(x) == [n |-> Abs(x.n), d |-> x.d]

\* sin of the whole angle, 2 sin(x/2) cos(x/2)
SinWhole(x) == FMul(FromInt(2), FMul(Sin(Half(x)), Cos(Half(x))))

\* C2: from_euler_angles(x, y, z) has the stated components and
\* square_length 1 within epsilon, for all angles.
C2_EulerUnit ==
  op = "from_euler_angles" =>
    /\ out = FromEulerAngles(angles[1], angles[2], angles[3])
    /\ FLt(FAbs(FSub(SquareLength(out), FOne)), Epsilon)

\* what the code returns: square_length = 1 + sin(x) sin(y) sin(z)
EulerSquareLength ==
  op = "from_euler_angles" =>
    SquareLength(out) =
      FAdd(FOne, FMul(FMul(SinWhole(angles[1]), SinWhole(angles[2])),
                      SinWhole(angles[3])))

\* the assertion of test_euler_angle
EulerTestPasses ==
  op = "from_euler_angles" /\ angles = <<Pi, Pi, Pi>> =>
    FLt(FAbs(FSub(SquareLength(out), FOne)), Epsilon)

====
